---- MODULE Spec2Model ----
(***************************************************************************)
(* Model of the N-body gravity kernel of src/main.cpp: init(), step(),     *)
(* calc() and main().                                                      *)
(*                                                                         *)
(* Numbers.  The program computes in `float`.  The model computes in       *)
(* fixed point: positions, masses, G, eps and dt are integers counting     *)
(* 1/Unit, velocities and velocity deltas count 1/(Unit*Fine), and every   *)
(* product is brought back to its unit by a quotient that rounds toward    *)
(* zero (Quot).  Rounding therefore differs from IEEE single precision;    *)
(* the order of the loops, which values each statement reads and writes,   *)
(* and the formulas are those of the source.                               *)
(***************************************************************************)
EXTENDS Integers, Sequences, FiniteSets, TLC

(* ------------------------------ bounds -------------------------------- *)

\* Number of bodies (src/main.cpp:58 sets 48; the model runs a smaller store).
NUM == 3

\* Largest value of std::rand() (the library's RAND_MAX; smaller here).
RAND_MAX == 31

\* Calls of step() and calc() a harness makes after init() (Spec).
MaxCalls == 4

\* Iterations of main's benchmark loop (src/main.cpp:310 runs 100000).
Iterations == 3

(* --------------------------- number model ----------------------------- *)

\* 1.0f in the unit of positions and masses.
Unit == 1000

\* Velocities carry Fine more steps per 1/Unit: 1.0f = Unit * Fine.
Fine == Unit

VUnit == Unit * Fine

\* Division of floats, rounding toward zero (sign-symmetric like IEEE).
Quot(a, b) == IF a >= 0 THEN a \div b ELSE -((-a) \div b)

\* Binary search for the largest r with r * r <= x, lo <= r <= hi.
sqrt_search[x \in Nat, lo \in Nat, hi \in Nat] ==
  IF lo >= hi THEN lo
  ELSE LET mid == (lo + hi + 1) \div 2
       IN  IF mid * mid <= x THEN sqrt_search[x, mid, hi]
                             ELSE sqrt_search[x, lo, mid - 1]

\* std::sqrt of a value counting 1/Unit^2; the result counts 1/Unit.
sqrt(x) == sqrt_search[x, 0, 46340]

Vec3Add(a, b) == <<a[1] + b[1], a[2] + b[2], a[3] + b[3]>>

(* ----------------------------- constants ------------------------------ *)

G == Unit \div 1000        \* 0.001f
eps == Unit \div 1000      \* 0.001f
dt == Unit \div 100        \* 0.01f

\* step()'s locals t = G * dt and epss = eps * eps (both count 1/Unit^2).
t == G * dt
epss == eps * eps

Bodies == 0 .. (NUM - 1)

(* ------------------------------- state -------------------------------- *)

VARIABLES
  stars,   \* the global Stars: px, py, pz, vx, vy, vz, mass, each Bodies -> Int
  seed,    \* state of std::rand()
  pc,      \* the function running: "start" (nothing called yet), "init",
           \* "vel" / "pos" (step's two loops), "calc", "idle" (in the caller)
  i,       \* index of the loop that is running
  ret,     \* value returned by the last calc()
  hist,    \* the calls made so far, in order
  given,   \* history: the mass init() assigned to each body
  s0,      \* history: stars when the running (or last) step() was entered
  first,   \* history: stars when the first step() was entered
  fin,     \* history: bodies whose velocity the running step() has written
  mpc,     \* main(): the statement it executes next
  n,       \* main(): the benchmark loop's counter
  e0,      \* main(): the energy printed before the loop
  e1       \* main(): the energy printed after the loop

vars == <<stars, seed, pc, i, ret, hist, given, s0, first, fin, mpc, n, e0, e1>>

mainvars == <<mpc, n, e0, e1>>

\* A global object of static storage duration is zero-initialised.
Stars == [px |-> [b \in Bodies |-> 0], py |-> [b \in Bodies |-> 0],
          pz |-> [b \in Bodies |-> 0], vx |-> [b \in Bodies |-> 0],
          vy |-> [b \in Bodies |-> 0], vz |-> [b \in Bodies |-> 0],
          mass |-> [b \in Bodies |-> 0]]

(* ------------------------------ frand, init --------------------------- *)

\* std::rand(): the sequence is the library's; here a generator over
\* 0..RAND_MAX that is a bijection of its state, started from any state,
\* so that every draw can return every value.
rand(sd) == (5 * sd + 3) % (RAND_MAX + 1)

frand_no_offset(r) == Quot(r * Unit, RAND_MAX) * 2

\* (float)std::rand() / (float)RAND_MAX * 2.0f - 1.0f
frand(r) == Quot(r * Unit, RAND_MAX) * 2 - Unit

\* One iteration of init()'s loop: seven draws, in the order of the source.
init_body(s, b, sd) ==
  LET r1 == rand(sd)
      r2 == rand(r1)
      r3 == rand(r2)
      r4 == rand(r3)
      r5 == rand(r4)
      r6 == rand(r5)
      r7 == rand(r6)
  IN  [st |-> [s EXCEPT !.px[b] = frand(r1), !.py[b] = frand(r2),
                        !.pz[b] = frand(r3), !.vx[b] = frand(r4) * Fine,
                        !.vy[b] = frand(r5) * Fine, !.vz[b] = frand(r6) * Fine,
                        !.mass[b] = frand(r7) + Unit],
       sd |-> r7]

init_iter ==
  /\ pc = "init" /\ i < NUM
  /\ LET o == init_body(stars, i, seed)
     IN  /\ stars' = o.st
         /\ seed' = o.sd
         /\ given' = [given EXCEPT ![i] = o.st.mass[i]]
  /\ i' = i + 1
  /\ UNCHANGED <<pc, ret, hist, s0, first, fin, mainvars>>

init_return ==
  /\ pc = "init" /\ i = NUM
  /\ pc' = "idle"
  /\ UNCHANGED <<stars, seed, i, ret, hist, given, s0, first, fin, mainvars>>

(* -------------------------------- step -------------------------------- *)

disp_typo(s, b, j) ==
  <<s.px[j] - s.py[b], s.py[j] - s.py[b], s.pz[j] - s.pz[b]>>

\* dx, dy, dz: body j's position minus the cached position of body b.
disp(s, b, j) ==
  <<s.px[j] - s.px[b], s.py[j] - s.py[b], s.pz[j] - s.pz[b]>>

dist2_unsoftened(d) == d[1] * d[1] + d[2] * d[2] + d[3] * d[3]

\* d2 = dx * dx + dy * dy + dz * dz + epss  (counts 1/Unit^2)
dist2(d) == d[1] * d[1] + d[2] * d[2] + d[3] * d[3] + epss

\* One component of the inner loop's addend, dx * xx with
\* xx = (1 / (d2 * sqrt(d2))) * t * mass[j].  The quotient by d2 * sqrt(d2)
\* is taken in two stages (by sqrt(d2), then by d2) so that no intermediate
\* value leaves 32 bits; the result counts 1/(Unit*Fine).
pull(dc, d2, m) == Quot(Quot(dc * t * m, sqrt(d2)) * Fine, d2)

\* What iteration j of the inner loop adds to <<vx, vy, vz>>.
contrib(s, b, j) ==
  LET d == disp(s, b, j)
      d2 == dist2(d)
  IN  <<pull(d[1], d2, s.mass[j]), pull(d[2], d2, s.mass[j]),
        pull(d[3], d2, s.mass[j])>>

acc_from_velocity(s, b) == <<s.vx[b], s.vy[b], s.vz[b]>>

\* float vx = 0.0f, vy = 0.0f, vz = 0.0f;
acc_init(s, b) == <<0, 0, 0>>

\* The inner loop, j = from .. NUM-1, on the local accumulators.
RECURSIVE inner_loop(_, _, _, _)
inner_loop(s, b, j, acc) ==
  IF j >= NUM THEN acc
  ELSE inner_loop(s, b, j + 1, Vec3Add(acc, contrib(s, b, j)))

apply_velocity(s, b, a) ==
  [s EXCEPT !.vx[b] = @ + a[1], !.vy[b] = @ + a[2], !.vz[b] = @ + a[3]]

pos_update_no_dt(s, b) ==
  [s EXCEPT !.px[b] = @ + Quot(s.vx[b], Fine),
            !.py[b] = @ + Quot(s.vy[b], Fine),
            !.pz[b] = @ + Quot(s.vz[b], Fine)]

\* Iteration b of the second loop: stars.px[b] += stars.vx[b] * dt; ...
pos_update(s, b) ==
  [s EXCEPT !.px[b] = @ + Quot(s.vx[b] * dt, VUnit),
            !.py[b] = @ + Quot(s.vy[b] * dt, VUnit),
            !.pz[b] = @ + Quot(s.vz[b] * dt, VUnit)]

vel_update_moving(s, b) ==
  LET w == apply_velocity(s, b, inner_loop(s, b, 0, acc_init(s, b)))
  IN  [w EXCEPT !.px[b] = @ + Quot(w.vx[b] * dt, VUnit),
                !.py[b] = @ + Quot(w.vy[b] * dt, VUnit),
                !.pz[b] = @ + Quot(w.vz[b] * dt, VUnit)]

\* Iteration b of the first loop: accumulate, then stars.vx[b] += vx; ...
vel_update(s, b) == apply_velocity(s, b, inner_loop(s, b, 0, acc_init(s, b)))

step_vel ==
  /\ pc = "vel" /\ i < NUM
  /\ stars' = vel_update(stars, i)
  /\ fin' = fin \cup {i}
  /\ i' = i + 1
  /\ UNCHANGED <<seed, pc, ret, hist, given, s0, first, mainvars>>

step_vel_exit ==
  /\ pc = "vel" /\ i = NUM
  /\ pc' = "pos"
  /\ i' = 0
  /\ UNCHANGED <<stars, seed, ret, hist, given, s0, first, fin, mainvars>>

step_pos ==
  /\ pc = "pos" /\ i < NUM
  /\ stars' = pos_update(stars, i)
  /\ i' = i + 1
  /\ UNCHANGED <<seed, pc, ret, hist, given, s0, first, fin, mainvars>>

step_return ==
  /\ pc = "pos" /\ i = NUM
  /\ pc' = "idle"
  /\ UNCHANGED <<stars, seed, i, ret, hist, given, s0, first, fin, mainvars>>

(* -------------------------------- calc -------------------------------- *)

\* d2 of calc(): dx * dx + dy * dy + dz * dz + eps * eps
calc_d2(d) == d[1] * d[1] + d[2] * d[2] + d[3] * d[3] + eps * eps

\* stars.mass[b] * v2 * 0.5f, with v2 of body b  (counts 1/Unit^2)
kinetic(s, b) ==
  LET wx == Quot(s.vx[b], Fine)
      wy == Quot(s.vy[b], Fine)
      wz == Quot(s.vz[b], Fine)
      v2 == wx * wx + wy * wy + wz * wz
  IN  Quot(s.mass[b] * Quot(v2, Unit), 2)

\* stars.mass[j] * stars.mass[b] * G * 0.5f * s_d2, s_d2 = 1 / sqrt(d2)
potential(s, b, j) ==
  Quot(Quot(s.mass[j] * s.mass[b] * G, 2), sqrt(calc_d2(disp(s, b, j))))

RECURSIVE calc_inner(_, _, _, _)
calc_inner(s, b, j, energy) ==
  IF j >= NUM THEN energy
  ELSE calc_inner(s, b, j + 1, energy - potential(s, b, j))

RECURSIVE calc_outer(_, _, _)
calc_outer(s, b, energy) ==
  IF b >= NUM THEN energy
  ELSE calc_outer(s, b + 1, calc_inner(s, b, 0, energy + kinetic(s, b)))

\* float calc(): the accumulator starts at 0 in every call.
calc(s) == calc_outer(s, 0, 0)

calc_body_static ==
  /\ pc = "calc"
  /\ ret' = calc_outer(stars, 0, ret)
  /\ pc' = "idle"
  /\ UNCHANGED <<stars, seed, i, hist, given, s0, first, fin, mainvars>>

\* The whole of calc(): it writes its locals and returns.
calc_body ==
  /\ pc = "calc"
  /\ ret' = calc(stars)
  /\ pc' = "idle"
  /\ UNCHANGED <<stars, seed, i, hist, given, s0, first, fin, mainvars>>

(* ------------------------- entering a function ------------------------ *)

enter_init ==
  /\ pc' = "init"
  /\ i' = 0
  /\ hist' = Append(hist, "init")
  /\ UNCHANGED <<stars, seed, ret, given, s0, first, fin>>

enter_step ==
  /\ pc' = "vel"
  /\ i' = 0
  /\ hist' = Append(hist, "step")
  /\ s0' = stars
  /\ first' = IF \E k \in 1 .. Len(hist) : hist[k] = "step" THEN first ELSE stars
  /\ fin' = {}
  /\ UNCHANGED <<stars, seed, ret, given>>

enter_calc ==
  /\ pc' = "calc"
  /\ hist' = Append(hist, "calc")
  /\ UNCHANGED <<stars, seed, i, ret, given, s0, first, fin>>

(* ------------------ a harness calling the kernel (Spec) --------------- *)

call_init == pc = "start" /\ enter_init /\ UNCHANGED mainvars

call_step ==
  /\ pc = "idle" /\ Len(hist) <= MaxCalls
  /\ enter_step
  /\ UNCHANGED mainvars

call_calc ==
  /\ pc = "idle" /\ Len(hist) <= MaxCalls
  /\ enter_calc
  /\ UNCHANGED mainvars

(* -------------------------------- main -------------------------------- *)

loop_cond_inclusive(k) == k <= Iterations

\* i < 100000
loop_cond(k) == k < Iterations

main_init ==
  /\ mpc = "init" /\ pc = "start"
  /\ enter_init
  /\ mpc' = "calc0"
  /\ UNCHANGED <<n, e0, e1>>

main_calc0 ==
  /\ mpc = "calc0" /\ pc = "idle"
  /\ enter_calc
  /\ mpc' = "print0"
  /\ UNCHANGED <<n, e0, e1>>

main_print0 ==
  /\ mpc = "print0" /\ pc = "idle"
  /\ e0' = ret
  /\ n' = 0
  /\ mpc' = "loop"
  /\ UNCHANGED <<stars, seed, pc, i, ret, hist, given, s0, first, fin, e1>>

main_loop ==
  /\ mpc = "loop" /\ pc = "idle" /\ loop_cond(n)
  /\ enter_step
  /\ mpc' = "incr"
  /\ UNCHANGED <<n, e0, e1>>

main_incr ==
  /\ mpc = "incr" /\ pc = "idle"
  /\ n' = n + 1
  /\ mpc' = "loop"
  /\ UNCHANGED <<stars, seed, pc, i, ret, hist, given, s0, first, fin, e0, e1>>

main_calc1 ==
  /\ mpc = "loop" /\ pc = "idle" /\ ~loop_cond(n)
  /\ enter_calc
  /\ mpc' = "print1"
  /\ UNCHANGED <<n, e0, e1>>

main_print1 ==
  /\ mpc = "print1" /\ pc = "idle"
  /\ e1' = ret
  /\ mpc' = "done"
  /\ UNCHANGED <<stars, seed, pc, i, ret, hist, given, s0, first, fin, n, e0>>

(* --------------------------- specifications --------------------------- *)

Init ==
  /\ stars = Stars
  /\ seed \in 0 .. RAND_MAX
  /\ pc = "start"
  /\ i = 0
  /\ ret = 0
  /\ hist = << >>
  /\ given = [b \in Bodies |-> 0]
  /\ s0 = Stars
  /\ first = Stars
  /\ fin = {}
  /\ mpc = "init"
  /\ n = 0
  /\ e0 = 0
  /\ e1 = 0

Next ==
  \/ call_init
  \/ init_iter
  \/ init_return
  \/ call_step
  \/ step_vel
  \/ step_vel_exit
  \/ step_pos
  \/ step_return
  \/ call_calc
  \/ calc_body

\* init(), then any calls of step() and calc().
Spec == Init /\ [][Next]_vars

MainNext ==
  \/ main_init
  \/ init_iter
  \/ init_return
  \/ main_calc0
  \/ calc_body
  \/ main_print0
  \/ main_loop
  \/ step_vel
  \/ step_vel_exit
  \/ step_pos
  \/ step_return
  \/ main_incr
  \/ main_calc1
  \/ main_print1

\* main(), a single thread that runs until it returns.
MainSpec == Init /\ [][MainNext]_vars /\ WF_vars(MainNext)

(* ------------------------- helpers of the claims ---------------------- *)

Pos(s) == <<s.px, s.py, s.pz>>
Vel(s) == <<s.vx, s.vy, s.vz>>

\* init() has returned and nothing else has run.
AfterInit == pc = "idle" /\ hist = <<"init">>

Initialised == pc \notin {"start", "init"}

\* step() has just returned.
StepDone == pc = "idle" /\ Len(hist) > 0 /\ hist[Len(hist)] = "step"

\* The velocity pass of the running step() has changed some velocity.
Pulled == \E b \in Bodies : Vel(stars)[1][b] # Vel(s0)[1][b]

(* ------------------------------- C1 ----------------------------------- *)

\* C1: while step() accumulates velocity deltas the positions are those held
\* when step() was entered, and step() writes no position before it has
\* written the velocity of every one of the NUM bodies.
C1_PositionsFrozenDuringVelocityPass ==
  /\ [](pc = "vel" => Pos(stars) = Pos(s0))
  /\ [][(pc \in {"vel", "pos"} /\ Pos(stars') # Pos(stars)) => fin = Bodies]_vars

\* The position pass has moved a body, after every velocity was written.
C1_Witness ==
  pc = "pos" /\ i > 0 /\ fin = Bodies /\ Pos(stars) # Pos(s0) /\ Pulled

(* ------------------------------- C2 ----------------------------------- *)

C3_MassPositiveAndFixed ==
  Initialised =>
    /\ DOMAIN stars.mass = Bodies /\ Cardinality(DOMAIN stars.mass) = NUM
    /\ \A b \in Bodies : stars.mass[b] = given[b] /\ stars.mass[b] > 0

(* ------------------------------- C4 ----------------------------------- *)

\* The hand computation: component c of p(j) - p(b), the softened squared
\* distance, and the addend (p(j) - p(b)) * G*dt*m(j) / (d2 * sqrt(d2)).
hand_d(s, b, j, c) == Pos(s)[c][j] - Pos(s)[c][b]

hand_d2(s, b, j) ==
  hand_d(s, b, j, 1) * hand_d(s, b, j, 1) + hand_d(s, b, j, 2) * hand_d(s, b, j, 2)
    + hand_d(s, b, j, 3) * hand_d(s, b, j, 3) + eps * eps

hand_term(s, b, j, c) ==
  Quot(Quot(hand_d(s, b, j, c) * (G * dt) * s.mass[j], sqrt(hand_d2(s, b, j))) * Fine,
       hand_d2(s, b, j))

RECURSIVE hand_sum(_, _, _, _)
hand_sum(s, b, c, js) ==
  IF js = {} THEN 0
  ELSE LET j == CHOOSE x \in js : TRUE
       IN  hand_term(s, b, j, c) + hand_sum(s, b, c, js \ {j})

\* C4: when step() returns, v'(b) = v(b) + sum over all j (j = b included) of
\* the hand-computed addend on the positions held at entry, and
\* p'(b) = p(b) + v'(b) * dt with the updated velocity.
C4_HandComputedStep ==
  StepDone =>
    \A b \in Bodies : \A c \in 1 .. 3 :
      /\ Vel(stars)[c][b] = Vel(s0)[c][b] + hand_sum(s0, b, c, Bodies)
      /\ Pos(stars)[c][b] = Pos(s0)[c][b] + Quot(Vel(stars)[c][b] * dt, VUnit)

\* step() has returned after gravity changed a velocity and a body moved.
C4_Witness ==
  StepDone /\ Pulled /\ \E b \in Bodies : hand_sum(s0, b, 1, Bodies) # 0
           /\ Pos(stars) # Pos(s0)

(* ------------------------------- C5 ----------------------------------- *)

\* C5: in every state and for every body b, the j = b iteration of step()'s
\* inner loop adds the zero vector to b's velocity delta.
C5_SelfTermZero == \A b \in Bodies : contrib(stars, b, b) = <<0, 0, 0>>

\* step() has run the inner loop for a body of positive mass that another
\* body pulls.
C5_Witness ==
  /\ pc = "vel" /\ i > 0
  /\ stars.mass[i - 1] > 0
  /\ \E j \in Bodies : contrib(stars, i - 1, j) # <<0, 0, 0>>

(* ------------------------------- C6 ----------------------------------- *)

\* C6: calc() leaves stars as it found it, and a calc() that directly
\* follows another calc() returns the value the first one returned.
C6_CalcReadOnly ==
  [][(pc = "calc" /\ pc' = "idle") =>
       /\ stars' = stars
       /\ (Len(hist) >= 2 /\ hist[Len(hist) - 1] = "calc") => ret' = ret]_vars

\* Two calls of calc() in a row have returned, after a step().
C6_Witness ==
  /\ pc = "idle" /\ Len(hist) >= 3
  /\ hist[Len(hist)] = "calc" /\ hist[Len(hist) - 1] = "calc"
  /\ hist[Len(hist) - 2] = "step"
  /\ ret # 0

(* ------------------------------- C7 ----------------------------------- *)

\* C7: in every state and for every pair of bodies (b = j included) the
\* softened squared distance is at least eps^2 > 0 in step() and in calc(),
\* and so is every divisor made from it.
C7_DivisorsPositive ==
  \A b \in Bodies : \A j \in Bodies :
    /\ dist2(disp(stars, b, j)) >= eps * eps
    /\ dist2(disp(stars, b, j)) > 0
    /\ sqrt(dist2(disp(stars, b, j))) > 0
    /\ calc_d2(disp(stars, b, j)) >= eps * eps
    /\ sqrt(calc_d2(disp(stars, b, j))) > 0

\* step() is in its velocity pass; the j = b pair sits at the minimum eps^2
\* and two distinct bodies are apart.
C7_Witness ==
  /\ pc = "vel" /\ i > 0
  /\ dist2(disp(stars, 0, 0)) = eps * eps
  /\ dist2(disp(stars, 0, 1)) > eps * eps

(* ------------------------------- C8 ----------------------------------- *)

Expected ==
  <<"init", "calc">> \o [k \in 1 .. Iterations |-> "step"] \o <<"calc">>

\* C8: main() calls init() once, calc() once, step() Iterations times with
\* no other call in between, calc() once, and returns; the energies it
\* prints are calc() of the state before the first step and after the last.
C8_MainSequence ==
  /\ [](/\ Len(hist) <= Len(Expected)
        /\ \A k \in 1 .. Len(hist) : hist[k] = Expected[k]
        /\ mpc = "done" => /\ hist = Expected
                           /\ pc = "idle"
                           /\ n = Iterations
                           /\ e0 = calc(first)
                           /\ e1 = calc(stars))
  /\ <>(mpc = "done")

\* main() has returned and the two energies differ.
C8_Witness == mpc = "done" /\ e0 # e1 /\ Len(hist) = Iterations + 3

(* ------------------------------- C10 ---------------------------------- *)

\* The two-stage form: all NUM deltas from one state, then every velocity,
\* then every position.
two_stage_delta(s) == [b \in Bodies |-> inner_loop(s, b, 0, <<0, 0, 0>>)]

two_stage_vel(s, c) == [b \in Bodies |-> Vel(s)[c][b] + two_stage_delta(s)[b][c]]

two_stage_pos(s, c) ==
  [b \in Bodies |-> Pos(s)[c][b] + Quot(two_stage_vel(s, c)[b] * dt, VUnit)]

\* C10: the fused loop of step() agrees with the two-stage form: during the
\* velocity pass the bodies before i hold the two-stage velocity and the
\* others their velocity at entry (iteration i writes body i only), and when
\* step() returns velocities and positions are those of the two-stage form.
C10_FusedEqualsTwoStage ==
  /\ pc = "vel" =>
       \A b \in Bodies : \A c \in 1 .. 3 :
         Vel(stars)[c][b] = IF b < i THEN two_stage_vel(s0, c)[b] ELSE Vel(s0)[c][b]
  /\ StepDone =>
       \A c \in 1 .. 3 : /\ Vel(stars)[c] = two_stage_vel(s0, c)
                         /\ Pos(stars)[c] = two_stage_pos(s0, c)

\* The velocity pass has finished and changed velocities of two bodies.
C10_Witness ==
  /\ pc = "vel" /\ i = NUM
  /\ Cardinality({b \in Bodies : Vel(stars)[1][b] # Vel(s0)[1][b]}) >= 2

====
